---- MODULE Spec2Model ----
(***************************************************************************)
(* Model of the insurtech_insight analysis scripts.                        *)
(*                                                                         *)
(*   main.py                 the per-article parse loop that produces the  *)
(*                           result rows                                   *)
(*   streamlit_app.py        the dashboard script: extract_json_fields,    *)
(*                           extract_date, the sidebar filter, and the     *)
(*                           tab1 / tab2 / tab3 aggregates                 *)
(*   streamlit_app_final.py  the same extract_json_fields, Counter /       *)
(*                           most_common, clustering, timeline and pivot   *)
(*                           code, without the sidebar filter              *)
(*                                                                         *)
(* Representation of the data.                                             *)
(*  - A text is a sequence of chunks.  The chunks are the markdown fence   *)
(*    markers "```json" and "```", a newline, the text of one JSON object, *)
(*    the text of one JSON value that is not an object (kind "arr": an     *)
(*    array, a number, a string, null), a truncated object text (it starts *)
(*    with "{" and is not valid JSON) and free text that is not JSON.      *)
(*    Only the two fence chunks hold backticks.                            *)
(*  - A JSON member value is absent, null, a string or a list.  Keywords   *)
(*    and entities are written as indices into a vocabulary (keyword 3 is  *)
(*    the text "k3", entity 2 is the text "e2").                           *)
(*  - Labels are written in ASCII: "ParseFailed" is the label 解析失败,     *)
(*    "Unextracted" is 未提取, "positive" is 正面, "negative" is 负面,      *)
(*    "ALL" is the filter choice 全部.                                      *)
(*  - "NaN" is a missing cell of the table (Python None / pandas NaN).     *)
(***************************************************************************)
EXTENDS Integers, Sequences, FiniteSets, TLC

VARIABLES
    pc,                 \* position in the script
    raised,             \* "" or the exception that ended the script
    raw_df,             \* the loaded rows: [raw, body]
    idx,                \* position of the loop over the raw outputs
    sentiments,         \* extract_json_fields: the four accumulators
    opinions,
    keywords_all,
    subjects,
    df,                 \* the table after the columns are assigned
    selected_sentiment, \* the sidebar choice
    sentiment_counts,   \* tab1
    top_kw,             \* tab1
    samples,            \* tab2: cluster id -> the sample opinions shown
    trend_data,         \* tab3: the timeline rows
    ent_df,             \* tab3: the (entity, sentiment) pairs
    pivot,              \* tab3: the entity x sentiment counts
    top_entities,       \* tab3: the selected entities
    results             \* main.py: the result rows

vars == <<pc, raised, raw_df, idx, sentiments, opinions, keywords_all, subjects,
          df, selected_sentiment, sentiment_counts, top_kw, samples, trend_data,
          ent_df, pivot, top_entities, results>>

----------------------------------------------------------------------------
(* Labels and missing values *)

NaN == "NaN"
ParseFailed == "ParseFailed"
Unextracted == "Unextracted"
ALL == "ALL"

\* Code-point order of the labels as Python's sorted() and pandas' groupby
\* order them: 未提取 (U+672A) < 正面 (U+6B63) < 解析失败 (U+89E3) < 负面 (U+8D1F).
SentRank(s) ==
    CASE s = Unextracted -> 1
      [] s = "positive"  -> 2
      [] s = ParseFailed -> 3
      [] s = "negative"  -> 4
      [] OTHER           -> 5

----------------------------------------------------------------------------
(* JSON member values and objects *)

JAbsent == [t |-> "absent", s |-> "", l |-> <<>>]
JNull == [t |-> "null", s |-> "", l |-> <<>>]
JStr(x) == [t |-> "str", s |-> x, l |-> <<>>]
JList(xs) == [t |-> "list", s |-> "", l |-> xs]

Obj(se, op, kw, en) == [sentiment |-> se, opinion |-> op, keywords |-> kw, entities |-> en]
EmptyObj == Obj(JAbsent, JAbsent, JAbsent, JAbsent)

(* Chunks of a text *)
FenceJson == [kind |-> "fencejson", obj |-> EmptyObj]
Fence == [kind |-> "fence", obj |-> EmptyObj]
Newline == [kind |-> "nl", obj |-> EmptyObj]
Doc(o) == [kind |-> "obj", obj |-> o]
Arr == [kind |-> "arr", obj |-> EmptyObj]
Broken == [kind |-> "brokenobj", obj |-> EmptyObj]
Garbage == [kind |-> "garbage", obj |-> EmptyObj]

\* A cell of the raw-output column: a text, or a value that is not text.
Text(chunks) == [text |-> TRUE, chunks |-> chunks]
NotText == [text |-> FALSE, chunks |-> <<>>]

\* s wrapped in markdown code-fence markers: "```json\n" + s + "\n```"
Wrap(r) == Text(<<FenceJson, Newline>> \o r.chunks \o <<Newline, Fence>>)

----------------------------------------------------------------------------
(* Parsing *)

\* raw.replace("```json", "").replace("```", "")
replace_fences(chunks) ==
    SelectSeq(chunks, LAMBDA c : c.kind \notin {"fencejson", "fence"})

\* json.loads: optional whitespace, one value, optional whitespace
json_loads(chunks) ==
    LET vals == SelectSeq(chunks, LAMBDA c : c.kind # "nl")
    IN  IF Len(vals) = 1 /\ vals[1].kind \in {"obj", "arr"}
        THEN [ok |-> TRUE, kind |-> vals[1].kind, obj |-> vals[1].obj]
        ELSE [ok |-> FALSE, kind |-> "error", obj |-> EmptyObj]

\* content.get("情绪", "未提取")
get_sentiment(o) ==
    CASE o.sentiment.t = "absent" -> Unextracted
      [] o.sentiment.t = "null"   -> NaN
      [] OTHER                    -> o.sentiment.s

\* content.get("观点", "")
get_opinion(o) ==
    CASE o.opinion.t = "absent" -> ""
      [] o.opinion.t = "null"   -> NaN
      [] OTHER                  -> o.opinion.s

\* isinstance(content.get(key, []), list): an absent member is the default [].
is_list(v) == v.t \in {"absent", "list"}
list_of(v) == IF v.t = "list" THEN v.l ELSE <<>>

\* The try block of extract_json_fields for one raw cell: whether it raises
\* (raw.replace on a value that is not text, json.loads on malformed text,
\* content.get on a value that is not an object).
try_parse(raw) ==
    IF ~raw.text THEN [ok |-> FALSE, obj |-> EmptyObj]
    ELSE LET c == json_loads(replace_fences(raw.chunks))
         IN  IF c.ok /\ c.kind = "obj" THEN [ok |-> TRUE, obj |-> c.obj]
             ELSE [ok |-> FALSE, obj |-> EmptyObj]

----------------------------------------------------------------------------
(* extract_json_fields *)

Acc(se, op, kw, su) == [sentiments |-> se, opinions |-> op, keywords_all |-> kw, subjects |-> su]

\* The try block once json.loads returned the object o.
on_parsed(acc, o) ==
    Acc(Append(acc.sentiments, get_sentiment(o)),
        Append(acc.opinions, get_opinion(o)),
        IF is_list(o.keywords) THEN acc.keywords_all \o list_of(o.keywords)
                               ELSE acc.keywords_all,
        IF is_list(o.entities) THEN Append(acc.subjects, list_of(o.entities))
                               ELSE acc.subjects)

\* An except block that forgets the entity column, as the try block does for
\* a member that is not a list.
on_except_no_subject(acc) ==
    Acc(Append(acc.sentiments, ParseFailed),
        Append(acc.opinions, ""),
        acc.keywords_all,
        acc.subjects)

\* The except block.
on_except(acc) ==
    Acc(Append(acc.sentiments, ParseFailed),
        Append(acc.opinions, ""),
        acc.keywords_all,
        Append(acc.subjects, <<>>))

\* One iteration of "for raw in df[原始输出]".
loop_body(acc, raw) ==
    LET p == try_parse(raw)
    IN  IF p.ok THEN on_parsed(acc, p.obj) ELSE on_except(acc)

ExtractStep ==
    /\ pc = "extract"
    /\ idx <= Len(raw_df)
    /\ LET acc == loop_body(Acc(sentiments, opinions, keywords_all, subjects),
                            raw_df[idx].raw)
       IN  /\ sentiments' = acc.sentiments
           /\ opinions' = acc.opinions
           /\ keywords_all' = acc.keywords_all
           /\ subjects' = acc.subjects
    /\ idx' = idx + 1
    /\ UNCHANGED <<pc, raised, raw_df, df, selected_sentiment, sentiment_counts,
                   top_kw, samples, trend_data, ent_df, pivot, top_entities, results>>

----------------------------------------------------------------------------
(* extract_date and the assignment of the columns *)

DateTokens == {"2024-01-05", "2024-02-10"}

\* Order of the date tokens as strings.
DateRank(d) == IF d = "2024-01-05" THEN 1 ELSE IF d = "2024-02-10" THEN 2 ELSE 3

\* re.search(r"(\d{4}-\d{2}-\d{2})", str(text)): the first match, or None.
\* A body is a sequence of words; the words of DateTokens are the ones the
\* pattern matches.
RECURSIVE extract_date(_)
extract_date(text) ==
    IF text = <<>> THEN NaN
    ELSE IF Head(text) \in DateTokens THEN Head(text)
    ELSE extract_date(Tail(text))

NoLabel == 0 - 1

\* df["情绪"], df["观点"], all_keywords, df["主体"] = extract_json_fields(df)
\* df["日期"] = df["正文"].apply(extract_date)
\* Assigning a list to a column raises ValueError when its length is not the
\* number of rows.
AssignColumns ==
    /\ pc = "extract"
    /\ idx > Len(raw_df)
    /\ \/ /\ Len(subjects) = Len(raw_df)
          /\ df' = [i \in 1..Len(raw_df) |->
                       [raw |-> raw_df[i].raw,
                        body |-> raw_df[i].body,
                        sentiment |-> sentiments[i],
                        opinion |-> opinions[i],
                        subjects |-> subjects[i],
                        date |-> extract_date(raw_df[i].body),
                        label |-> NoLabel]]
          /\ pc' = "sidebar"
          /\ UNCHANGED raised
       \/ /\ Len(subjects) # Len(raw_df)
          /\ pc' = "crashed"
          /\ raised' = "ValueError: length of values does not match length of index"
          /\ UNCHANGED df
    /\ UNCHANGED <<raw_df, idx, sentiments, opinions, keywords_all, subjects,
                   selected_sentiment, sentiment_counts, top_kw, samples, trend_data,
                   ent_df, pivot, top_entities, results>>

----------------------------------------------------------------------------
(* The sidebar filter *)

ColumnValues(col) == {col[i] : i \in DOMAIN col}

\* sentiment_options = ["全部"] + sorted(df["情绪"].dropna().unique().tolist())
sentiment_options == {ALL} \cup ({df[i].sentiment : i \in DOMAIN df} \ {NaN})

\* df = df[df["情绪"] == selected_sentiment]
filter_rows(rows, sel) == SelectSeq(rows, LAMBDA r : r.sentiment = sel)

SidebarFilter ==
    /\ pc = "sidebar"
    /\ \E sel \in sentiment_options :
          /\ selected_sentiment' = sel
          /\ df' = IF sel # ALL THEN filter_rows(df, sel) ELSE df
    /\ pc' = "tab1"
    /\ UNCHANGED <<raised, raw_df, idx, sentiments, opinions, keywords_all, subjects,
                   sentiment_counts, top_kw, samples, trend_data, ent_df, pivot,
                   top_entities, results>>

----------------------------------------------------------------------------
(* tab1: the sentiment distribution and the keyword ranking *)

TopN == 20

Occurrences(seq, x) == Cardinality({i \in DOMAIN seq : seq[i] = x})

\* df["情绪"].value_counts(): the count of each label that is not missing.
value_counts(col) ==
    {[sentiment |-> v, count |-> Occurrences(col, v)] : v \in ColumnValues(col) \ {NaN}}

\* Counter(iterable): a dict in insertion order, so the keys stand in the order
\* of their first occurrence, each with the number of its occurrences.
Counter(seq) ==
    LET firsts == {i \in DOMAIN seq : \A j \in 1..(i - 1) : seq[j] # seq[i]}
        nth(n) == CHOOSE i \in firsts : Cardinality({j \in firsts : j <= i}) = n
    IN  [n \in 1..Cardinality(firsts) |->
            [key |-> seq[nth(n)], count |-> Occurrences(seq, seq[nth(n)])]]

\* sorted(items, key=itemgetter(1), reverse=True): a stable sort, so an item
\* goes behind the items already placed whose count is at least its own.
RECURSIVE insert_sorted(_, _)
insert_sorted(sorted, item) ==
    IF sorted = <<>> THEN <<item>>
    ELSE IF Head(sorted).count >= item.count
         THEN <<Head(sorted)>> \o insert_sorted(Tail(sorted), item)
         ELSE <<item>> \o sorted

RECURSIVE sorted_desc(_)
sorted_desc(items) ==
    IF items = <<>> THEN <<>>
    ELSE insert_sorted(sorted_desc(SubSeq(items, 1, Len(items) - 1)), items[Len(items)])

\* A sort that puts an item before the items of equal count.
RECURSIVE insert_before_equal(_, _)
insert_before_equal(sorted, item) ==
    IF sorted = <<>> THEN <<item>>
    ELSE IF Head(sorted).count > item.count
         THEN <<Head(sorted)>> \o insert_before_equal(Tail(sorted), item)
         ELSE <<item>> \o sorted

RECURSIVE sorted_desc_unstable(_)
sorted_desc_unstable(items) ==
    IF items = <<>> THEN <<>>
    ELSE insert_before_equal(sorted_desc_unstable(SubSeq(items, 1, Len(items) - 1)),
                             items[Len(items)])

most_common_unstable(counter, n) ==
    LET s == sorted_desc_unstable(counter)
    IN  SubSeq(s, 1, IF Len(s) < n THEN Len(s) ELSE n)

\* Counter.most_common(n): heapq.nlargest(n, items, key=count), which is
\* sorted(items, key=count, reverse=True)[:n].
most_common(counter, n) ==
    LET s == sorted_desc(counter)
    IN  SubSeq(s, 1, IF Len(s) < n THEN Len(s) ELSE n)

NoWords == "ValueError: We need at least 1 word to plot a word cloud, got 0."
FontUnreadable == "OSError: cannot open resource"

\* The word cloud block of tab1.  Two facts of the host decide it: whether
\* get_chinese_font() finds one of its four font files (font_found), and
\* whether the file "font.ttf" the WordCloud is given can be opened (font_ttf).
\* Without a font the block only warns.  With one,
\* generate_from_frequencies(kw_freq) raises ValueError on an empty kw_freq,
\* and OSError when "font.ttf" cannot be opened; "" when it draws.
wordcloud_raises(kw_freq, font_found, font_ttf) ==
    IF ~font_found THEN ""
    ELSE IF kw_freq = <<>> THEN NoWords
    ELSE IF ~font_ttf THEN FontUnreadable
    ELSE ""

\* sentiment_counts = df["情绪"].value_counts()
\* kw_freq = Counter(all_keywords); top_kw = kw_freq.most_common(20)
\* and then the word cloud, whose exception nothing catches: the script ends
\* inside tab1 and tab2, tab3 do not run.
Tab1 ==
    /\ pc = "tab1"
    /\ sentiment_counts' = value_counts([i \in DOMAIN df |-> df[i].sentiment])
    /\ top_kw' = most_common(Counter(keywords_all), TopN)
    /\ \E font_found \in BOOLEAN, font_ttf \in BOOLEAN :
          LET exc == wordcloud_raises(Counter(keywords_all), font_found, font_ttf)
          IN  \/ /\ exc = ""
                 /\ pc' = "tab2"
                 /\ UNCHANGED raised
              \/ /\ exc # ""
                 /\ pc' = "crashed"
                 /\ raised' = exc
    /\ UNCHANGED <<raw_df, idx, sentiments, opinions, keywords_all, subjects,
                   df, selected_sentiment, samples, trend_data, ent_df, pivot,
                   top_entities, results>>

----------------------------------------------------------------------------
(* tab2: the opinion clustering *)

k == 4
SampleCount == 3

EmptyVocabulary == "ValueError: empty vocabulary"
TooFewSamples == "ValueError: n_samples should be >= n_clusters"

\* df["观点"].fillna("")
fillna(v) == IF v = NaN THEN "" ELSE v

\* The analyzer of TfidfVectorizer(stop_words="english"): the lower-cased runs
\* of two or more word characters that are not English stop words.
tokens_of(doc) ==
    CASE doc = "smart underwriting"   -> {"smart", "underwriting"}
      [] doc = "digital underwriting" -> {"digital", "underwriting"}
      [] doc = "the"                  -> {}
      [] OTHER                        -> {}

\* The documents handed to fit_transform and the vocabulary it learns; it
\* raises ValueError on an empty vocabulary.
documents(rows) == [i \in DOMAIN rows |-> fillna(rows[i].opinion)]
vocabulary(rows) == UNION {tokens_of(documents(rows)[i]) : i \in DOMAIN rows}

\* KMeans(n_clusters=k, random_state=42).fit_predict(X): it raises ValueError
\* when there are fewer rows than clusters; otherwise every row gets a label
\* in 0..k-1, and rows with the same vector get the same label.  Which label
\* is the outcome of the numeric iteration, left open here.
labelings(rows) ==
    {lab \in [DOMAIN rows -> 0..(k - 1)] :
        \A i, j \in DOMAIN rows :
            tokens_of(documents(rows)[i]) = tokens_of(documents(rows)[j]) => lab[i] = lab[j]}

\* df[df["聚类标签"] == i]["观点"].dropna().head(3).tolist()
cluster_sample(rows, i) ==
    LET mine == SelectSeq(rows, LAMBDA r : r.label = i /\ r.opinion # NaN)
    IN  [j \in 1..(IF Len(mine) < SampleCount THEN Len(mine) ELSE SampleCount) |->
            mine[j].opinion]

Tab2 ==
    /\ pc = "tab2"
    /\ \/ /\ vocabulary(df) = {}
          /\ raised' = EmptyVocabulary
          /\ pc' = "crashed"
          /\ UNCHANGED <<df, samples>>
       \/ /\ vocabulary(df) # {}
          /\ Len(df) < k
          /\ raised' = TooFewSamples
          /\ pc' = "crashed"
          /\ UNCHANGED <<df, samples>>
       \/ /\ vocabulary(df) # {}
          /\ Len(df) >= k
          /\ \E lab \in labelings(df) :
                LET labelled == [i \in DOMAIN df |-> [df[i] EXCEPT !.label = lab[i]]]
                IN  /\ df' = labelled
                    /\ samples' = [i \in 0..(k - 1) |-> cluster_sample(labelled, i)]
          /\ pc' = "tab3_timeline"
          /\ UNCHANGED raised
    /\ UNCHANGED <<raw_df, idx, sentiments, opinions, keywords_all, subjects,
                   selected_sentiment, sentiment_counts, top_kw, trend_data, ent_df,
                   pivot, top_entities, results>>

----------------------------------------------------------------------------
(* tab3: the timeline *)

KeyBefore(a, b) ==
    \/ DateRank(a[1]) < DateRank(b[1])
    \/ DateRank(a[1]) = DateRank(b[1]) /\ SentRank(a[2]) < SentRank(b[2])

RECURSIVE sort_keys(_)
sort_keys(keys) ==
    IF keys = {} THEN <<>>
    ELSE LET first == CHOOSE a \in keys : \A b \in keys \ {a} : KeyBefore(a, b)
         IN  <<first>> \o sort_keys(keys \ {first})

\* timeline_df = df.dropna(subset=["日期"])
dropna_date(rows) == SelectSeq(rows, LAMBDA r : r.date # NaN)

\* timeline_df.groupby(["日期", "情绪"]).size().reset_index(name="数量"):
\* groupby leaves out the rows whose key holds a missing value, and orders the
\* groups by their keys.
groupby_size(rows) ==
    LET keyed == SelectSeq(rows, LAMBDA r : r.date # NaN /\ r.sentiment # NaN)
        keys == sort_keys({<<keyed[i].date, keyed[i].sentiment>> : i \in DOMAIN keyed})
    IN  [n \in DOMAIN keys |->
            [date |-> keys[n][1], sentiment |-> keys[n][2],
             count |-> Cardinality({i \in DOMAIN keyed :
                                       <<keyed[i].date, keyed[i].sentiment>> = keys[n]})]]

Tab3Timeline ==
    /\ pc = "tab3_timeline"
    /\ trend_data' = groupby_size(dropna_date(df))
    /\ pc' = "tab3_entities"
    /\ UNCHANGED <<raised, raw_df, idx, sentiments, opinions, keywords_all, subjects,
                   df, selected_sentiment, sentiment_counts, top_kw, samples, ent_df,
                   pivot, top_entities, results>>

----------------------------------------------------------------------------
(* tab3: the entity x sentiment matrix *)

TopEntities == 6

\* extract_entities: one (entity, sentiment) pair per entity of every record
\* that parses and whose entity member is a list.
RECURSIVE extract_entities(_)
extract_entities(rows) ==
    IF rows = <<>> THEN <<>>
    ELSE LET p == try_parse(Head(rows).raw)
             ents == IF p.ok /\ is_list(p.obj.entities) THEN list_of(p.obj.entities) ELSE <<>>
         IN  [i \in DOMAIN ents |-> [entity |-> ents[i], sentiment |-> get_sentiment(p.obj)]]
             \o extract_entities(Tail(rows))

\* ent_df.groupby(["主体", "情绪"]).size().unstack(fill_value=0): the pairs with
\* a missing sentiment are left out of the groups.
pivot_table(pairs) ==
    LET kept == SelectSeq(pairs, LAMBDA q : q.sentiment # NaN)
        ents == {kept[i].entity : i \in DOMAIN kept}
        cols == {kept[i].sentiment : i \in DOMAIN kept}
    IN  [e \in ents |-> [c \in cols |->
            Cardinality({i \in DOMAIN kept : kept[i].entity = e /\ kept[i].sentiment = c})]]

RECURSIVE SumOver(_, _)
SumOver(f, dom) ==
    IF dom = {} THEN 0
    ELSE LET x == CHOOSE x \in dom : TRUE IN f[x] + SumOver(f, dom \ {x})

\* pivot.sum(axis=1)
row_sum(p, e) == SumOver(p[e], DOMAIN p[e])

\* pivot.sum(axis=1).sort_values(ascending=False).head(6).index: the order
\* among equal sums is the sort's; any of them can be the one cut.
top_by_row_sum(p) ==
    {T \in SUBSET DOMAIN p :
        /\ Cardinality(T) = IF Cardinality(DOMAIN p) < TopEntities
                            THEN Cardinality(DOMAIN p) ELSE TopEntities
        /\ \A a \in T : \A b \in (DOMAIN p) \ T : row_sum(p, a) >= row_sum(p, b)}

Tab3Entities ==
    /\ pc = "tab3_entities"
    /\ ent_df' = extract_entities(df)
    /\ \/ /\ extract_entities(df) # <<>>
          /\ pivot' = pivot_table(extract_entities(df))
          /\ top_entities' \in top_by_row_sum(pivot_table(extract_entities(df)))
       \/ /\ extract_entities(df) = <<>>
          /\ UNCHANGED <<pivot, top_entities>>
    /\ pc' = "done"
    /\ UNCHANGED <<raised, raw_df, idx, sentiments, opinions, keywords_all, subjects,
                   df, selected_sentiment, sentiment_counts, top_kw, samples, trend_data,
                   results>>

----------------------------------------------------------------------------
(* main.py: the analysis loop *)

\* isinstance(output, str) and output.startswith("{")
starts_with_brace(output) ==
    output.text /\ output.chunks # <<>> /\ Head(output.chunks).kind \in {"obj", "brokenobj"}

\* The fallback row {"原始输出": output}: no structured member.
fallback(output) == [obj |-> EmptyObj, has_raw_output |-> TRUE, raw_output |-> output]

\* parsed = json.loads(output) if ... else {"原始输出": output}, the except
\* branch giving the same fallback; then results.append(parsed).  The output
\* is parsed as it stands: the loop strips no fence marker.
MainAnalyze ==
    /\ pc = "main_loop"
    /\ idx <= Len(raw_df)
    /\ LET output == raw_df[idx].raw
       IN  \/ /\ starts_with_brace(output)
              /\ json_loads(output.chunks).ok
              /\ results' = Append(results, [obj |-> json_loads(output.chunks).obj,
                                             has_raw_output |-> FALSE,
                                             raw_output |-> NotText])
           \/ /\ starts_with_brace(output)
              /\ ~json_loads(output.chunks).ok
              /\ results' = Append(results, fallback(output))
           \/ /\ ~starts_with_brace(output)
              /\ results' = Append(results, fallback(output))
    /\ idx' = idx + 1
    /\ UNCHANGED <<pc, raised, raw_df, sentiments, opinions, keywords_all, subjects,
                   df, selected_sentiment, sentiment_counts, top_kw, samples, trend_data,
                   ent_df, pivot, top_entities>>

\* save_results_to_json / save_results_to_csv once the loop has ended.
MainSave ==
    /\ pc = "main_loop"
    /\ idx > Len(raw_df)
    /\ pc' = "saved"
    /\ UNCHANGED <<raised, raw_df, idx, sentiments, opinions, keywords_all, subjects,
                   df, selected_sentiment, sentiment_counts, top_kw, samples, trend_data,
                   ent_df, pivot, top_entities, results>>

----------------------------------------------------------------------------
(* Inputs *)

RECURSIVE Range(_, _)
Range(a, b) == IF a > b THEN <<>> ELSE <<a>> \o Range(a + 1, b)

SeqsUpTo(S, n) == UNION {[1..len -> S] : len \in 0..n}

Row(raw, body) == [raw |-> raw, body |-> body]

O_full == Obj(JStr("positive"), JStr("smart underwriting"), JList(<<1, 2>>), JList(<<1>>))
O_nulls == Obj(JNull, JNull, JStr("k9"), JList(<<1, 2>>))
O_badents == Obj(JStr("negative"), JAbsent, JList(<<2, 2>>), JStr("e1"))

MaxRows == 3

\* The rows of the parsing specification: objects, fenced and not, members of
\* unexpected shapes, and the raw outputs that do not parse.
RowSetEtl ==
    { Row(Text(<<Doc(O_full)>>), <<"news", "2024-01-05">>),
      Row(Wrap(Text(<<Doc(O_full)>>)), <<"2024-02-10", "2024-01-05">>),
      Row(Text(<<FenceJson, Doc(O_nulls)>>), <<"news">>),
      Row(Text(<<Doc(O_badents)>>), <<"2024-01-05">>),
      Row(Text(<<Doc(EmptyObj), Newline>>), <<"nan">>),
      Row(Text(<<Garbage>>), <<"news", "2024-02-10">>),
      Row(Text(<<Arr>>), <<"news">>),
      Row(Text(<<Broken>>), <<>>),
      Row(Text(<<>>), <<"news">>),
      Row(NotText, <<"2024-01-05">>) }

InitAt(start, rows) ==
    /\ pc = start
    /\ raised = ""
    /\ raw_df = rows
    /\ idx = 1
    /\ sentiments = <<>>
    /\ opinions = <<>>
    /\ keywords_all = <<>>
    /\ subjects = <<>>
    /\ df = <<>>
    /\ selected_sentiment = ALL
    /\ sentiment_counts = <<>>
    /\ top_kw = <<>>
    /\ samples = <<>>
    /\ trend_data = <<>>
    /\ ent_df = <<>>
    /\ pivot = <<>>
    /\ top_entities = {}
    /\ results = <<>>

InitWith(rows) == InitAt("extract", rows)

InitEtl == \E rows \in SeqsUpTo(RowSetEtl, MaxRows) : InitWith(rows)

NextEtl == ExtractStep \/ AssignColumns

SpecEtl == InitEtl /\ [][NextEtl]_vars

\* The rows of the keyword specification: two long keyword lists that reach
\* and pass the ranking's width, short lists that repeat keywords, a keyword
\* member that is not a list, and a raw output that does not parse.
KwObj(se, kws) == Obj(se, JStr("smart underwriting"), kws, JList(<<1>>))

MaxKwRows == 3

RowSetKw ==
    { Row(Text(<<Doc(KwObj(JStr("positive"), JList(Range(1, TopN))))>>), <<"news">>),
      Row(Text(<<Doc(KwObj(JStr("negative"), JList(Range(1, TopN + 1))))>>), <<"news">>),
      Row(Text(<<Doc(KwObj(JStr("positive"), JList(<<TopN + 2>>)))>>), <<"news">>),
      Row(Text(<<Doc(KwObj(JStr("negative"), JList(<<TopN + 2, TopN + 1>>)))>>), <<"news">>),
      Row(Wrap(Text(<<Doc(KwObj(JAbsent, JList(<<TopN + 1, TopN + 2, TopN + 2>>)))>>)), <<"news">>),
      Row(Text(<<Doc(KwObj(JStr("positive"), JList(<<2, 2, 1>>)))>>), <<"news">>),
      Row(Text(<<Doc(Obj(JStr("negative"), JAbsent, JStr("k1"), JStr("e1")))>>), <<"news">>),
      Row(Text(<<Garbage>>), <<"news">>) }

InitKw == \E rows \in SeqsUpTo(RowSetKw, MaxKwRows) : InitWith(rows)

NextKw == ExtractStep \/ AssignColumns \/ SidebarFilter \/ Tab1

SpecKw == InitKw /\ [][NextKw]_vars

\* The rows of the specification of the whole dashboard script.
MaxTableRows == 4

RowSet ==
    { Row(Wrap(Text(<<Doc(O_full)>>)), <<"news", "2024-01-05">>),
      Row(Text(<<Doc(Obj(JNull, JStr("digital underwriting"), JList(<<2>>), JList(<<1, 2>>)))>>),
          <<"2024-01-05", "2024-02-10">>),
      Row(Text(<<Doc(Obj(JStr("negative"), JStr("smart underwriting"), JList(<<1, 1>>), JAbsent))>>),
          <<"news">>),
      Row(Text(<<Garbage>>), <<"2024-02-10">>),
      Row(Text(<<Doc(O_badents)>>), <<"2024-01-05">>),
      Row(Text(<<Doc(Obj(JStr("positive"), JNull, JAbsent, JList(Range(3, TopEntities + 1))))>>),
          <<"nan">>),
      Row(Text(<<Doc(Obj(JAbsent, JStr("the"), JList(<<3>>), JList(<<2>>)))>>), <<"2024-02-10">>) }

Init == \E rows \in SeqsUpTo(RowSet, MaxTableRows) : InitWith(rows)

Next ==
    \/ ExtractStep
    \/ AssignColumns
    \/ SidebarFilter
    \/ Tab1
    \/ Tab2
    \/ Tab3Timeline
    \/ Tab3Entities

Spec == Init /\ [][Next]_vars

\* The articles of the specification of main.py: the analyst outputs, fenced
\* and not, truncated, followed by free text, and a value that is not text.
MaxArticles == 3

OutputSet ==
    { Text(<<Doc(O_full)>>),
      Wrap(Text(<<Doc(O_full)>>)),
      Text(<<Doc(O_nulls), Newline>>),
      Text(<<Broken>>),
      Text(<<Doc(EmptyObj), Garbage>>),
      Text(<<Garbage>>),
      NotText }

InitMain ==
    \E outs \in SeqsUpTo(OutputSet, MaxArticles) :
        InitAt("main_loop", [i \in DOMAIN outs |-> Row(outs[i], <<"news">>)])

NextMain == MainAnalyze \/ MainSave

SpecMain == InitMain /\ [][NextMain]_vars

----------------------------------------------------------------------------
(* Claims about extract_json_fields *)

\* The function of a whole batch: the loop run over rows.
RECURSIVE run_extract(_)
run_extract(rows) ==
    IF rows = <<>> THEN Acc(<<>>, <<>>, <<>>, <<>>)
    ELSE loop_body(run_extract(SubSeq(rows, 1, Len(rows) - 1)), rows[Len(rows)].raw)

RemoveAt(seq, i) == SubSeq(seq, 1, i - 1) \o SubSeq(seq, i + 1, Len(seq))

\* What a raw output holds once the fence markers and newlines are set aside.
Payload(raw) == SelectSeq(raw.chunks, LAMBDA c : c.kind \notin {"fencejson", "fence", "nl"})

\* The raw output is a JSON object / cannot be parsed as a JSON object.
IsObject(raw) == raw.text /\ Len(Payload(raw)) = 1 /\ Payload(raw)[1].kind = "obj"
Unparseable(raw) == ~IsObject(raw)
ObjectOf(raw) == Payload(raw)[1].obj

Processed == SubSeq(raw_df, 1, idx - 1)

\* C1: when the loop has ended, the sentiment, opinion and entity columns each
\* hold exactly one entry per input record, and assigning them to the table
\* does not raise.
C1_OneEntryPerRecord ==
    /\ idx > Len(raw_df) =>
          /\ Len(sentiments) = Len(raw_df)
          /\ Len(opinions) = Len(raw_df)
          /\ Len(subjects) = Len(raw_df)
    /\ raised = ""

\* C2: every processed record whose raw output cannot be parsed as a JSON
\* object has sentiment ParseFailed, opinion "" and an empty entity list, adds
\* no keyword, and the other records' entries are those of the batch without it.
C2_ParseFailureIsLocal ==
    \A i \in 1..Len(Processed) :
        Unparseable(raw_df[i].raw) =>
            LET pos == Len(run_extract(SubSeq(raw_df, 1, i - 1)).subjects) + 1
                without == run_extract(RemoveAt(Processed, i))
            IN  /\ sentiments[i] = ParseFailed
                /\ opinions[i] = ""
                /\ pos <= Len(subjects)
                /\ subjects[pos] = <<>>
                /\ without.sentiments = RemoveAt(sentiments, i)
                /\ without.opinions = RemoveAt(opinions, i)
                /\ without.keywords_all = keywords_all
                /\ without.subjects = RemoveAt(subjects, pos)

\* C2's case: a record that does not parse, processed between two records that
\* parse and carry keywords.
C2_Witness ==
    /\ idx > Len(raw_df)
    /\ \E i \in 2..(Len(raw_df) - 1) :
          /\ Unparseable(raw_df[i].raw)
          /\ IsObject(raw_df[i - 1].raw) /\ ObjectOf(raw_df[i - 1].raw).keywords.t = "list"
          /\ IsObject(raw_df[i + 1].raw) /\ ObjectOf(raw_df[i + 1].raw).keywords.t = "list"
          /\ keywords_all # <<>>

\* The defaults of the four members.
DefaultSentiment(o) == IF o.sentiment.t = "str" THEN o.sentiment.s ELSE Unextracted
DefaultOpinion(o) == IF o.opinion.t = "str" THEN o.opinion.s ELSE ""
DefaultList(v) == IF v.t = "list" THEN v.l ELSE <<>>

\* C4: a record that parses as a JSON object appends to every column, each
\* member defaulted on its own when absent or of the wrong shape: sentiment to
\* Unextracted, opinion to "", keywords and entities to the empty list.
C4_MembersDefaultIndependently ==
    [][(pc = "extract" /\ idx <= Len(raw_df) /\ idx' = idx + 1 /\ IsObject(raw_df[idx].raw)) =>
          LET o == ObjectOf(raw_df[idx].raw)
          IN  /\ sentiments' = Append(sentiments, DefaultSentiment(o))
              /\ opinions' = Append(opinions, DefaultOpinion(o))
              /\ keywords_all' = keywords_all \o DefaultList(o.keywords)
              /\ subjects' = Append(subjects, DefaultList(o.entities))]_vars

----------------------------------------------------------------------------
(* Claims about the keyword ranking *)

Tab2Raised == raised \in {EmptyVocabulary, TooFewSamples}
Tab1Raised == raised \in {NoWords, FontUnreadable}
Tab1Done == pc \in {"tab2", "tab3_timeline", "tab3_entities", "done"} \/ Tab2Raised \/ Tab1Raised

FirstIndex(seq, x) == CHOOSE i \in DOMAIN seq : seq[i] = x /\ \A j \in 1..(i - 1) : seq[j] # x

RankedKeys == {top_kw[i].key : i \in DOMAIN top_kw}

\* C5: the ranking holds at most 20 entries (all the keywords when there are
\* fewer), each with the number of occurrences of its keyword in the flattened
\* keyword list, in descending count order, equal counts in first-seen order,
\* and no keyword left out has a higher count than one included.
C5_KeywordRanking ==
    Tab1Done =>
        /\ Len(top_kw) <= TopN
        /\ Len(top_kw) = IF Cardinality(ColumnValues(keywords_all)) < TopN
                         THEN Cardinality(ColumnValues(keywords_all)) ELSE TopN
        /\ \A i \in DOMAIN top_kw :
              /\ top_kw[i].key \in ColumnValues(keywords_all)
              /\ top_kw[i].count = Occurrences(keywords_all, top_kw[i].key)
        /\ \A i, j \in DOMAIN top_kw :
              i < j =>
                  \/ top_kw[i].count > top_kw[j].count
                  \/ /\ top_kw[i].count = top_kw[j].count
                     /\ FirstIndex(keywords_all, top_kw[i].key)
                            < FirstIndex(keywords_all, top_kw[j].key)
        /\ \A kw \in ColumnValues(keywords_all) \ RankedKeys :
              \A i \in DOMAIN top_kw : Occurrences(keywords_all, kw) <= top_kw[i].count

\* C5's case: more than 20 distinct keywords, so that some are left out, equal
\* counts inside the ranking, and a keyword counted more than once.
C5_Witness ==
    /\ Tab1Done
    /\ Cardinality(ColumnValues(keywords_all)) > TopN
    /\ Len(top_kw) = TopN
    /\ top_kw[1].count > 1
    /\ \E i \in 1..(TopN - 1) : top_kw[i].count = top_kw[i + 1].count
    /\ top_kw[1].key # keywords_all[1]

\* The keywords of the rows of a table, as the records give them.
RECURSIVE KeywordsOfRows(_)
KeywordsOfRows(rows) ==
    IF rows = <<>> THEN <<>>
    ELSE (IF IsObject(Head(rows).raw) THEN DefaultList(ObjectOf(Head(rows).raw).keywords)
          ELSE <<>>) \o KeywordsOfRows(Tail(rows))

\* C10: once the sidebar filter is applied, the keyword ranking counts exactly
\* the keywords of the rows that remain in the filtered table.
C10_RankingFollowsFilter ==
    (Tab1Done /\ selected_sentiment # ALL) =>
        /\ RankedKeys \subseteq ColumnValues(KeywordsOfRows(df))
        /\ \A i \in DOMAIN top_kw :
              top_kw[i].count = Occurrences(KeywordsOfRows(df), top_kw[i].key)

----------------------------------------------------------------------------
(* Claims about the parse of fenced output *)

\* C3: an output wrapped in code-fence markers yields the same structured
\* members as the output unwrapped, in the parse step of main.py and in the
\* dashboard's extract_json_fields.
C3_FencedParsesAlike ==
    \A i, j \in 1..Len(results) :
        (raw_df[i].raw.text /\ raw_df[j].raw = Wrap(raw_df[i].raw)) =>
            /\ results[j].obj = results[i].obj
            /\ loop_body(Acc(<<>>, <<>>, <<>>, <<>>), raw_df[j].raw)
                   = loop_body(Acc(<<>>, <<>>, <<>>, <<>>), raw_df[i].raw)

----------------------------------------------------------------------------
(* Claims about the clustering *)

Tab2Completed == pc \in {"tab3_timeline", "tab3_entities", "done"}
Tab2Attempted == Tab2Completed \/ Tab2Raised

IsNonEmpty(op) == op # "" /\ op # NaN
NonEmptyOpinions(rows) == Cardinality({i \in DOMAIN rows : IsNonEmpty(rows[i].opinion)})

\* C7: with fewer non-empty opinions than k, the clustering step completes
\* without raising, every row has a cluster id, and a cluster without rows is
\* reported empty.
C7_FewOpinionsStillCluster ==
    (Tab2Attempted /\ NonEmptyOpinions(df) < k) =>
        /\ raised = ""
        /\ \A i \in DOMAIN df : df[i].label \in 0..(k - 1)
        /\ \A c \in 0..(k - 1) :
              (\A i \in DOMAIN df : df[i].label # c) => samples[c] = <<>>

\* C9: the samples of cluster i are the first up to 3 non-empty opinions, in
\* table order, of the rows of cluster i.
C9_SamplesAreNonEmpty ==
    Tab2Completed =>
        \A c \in 0..(k - 1) :
            LET mine == SelectSeq(df, LAMBDA r : r.label = c /\ IsNonEmpty(r.opinion))
            IN  samples[c] = [j \in 1..(IF Len(mine) < SampleCount THEN Len(mine)
                                        ELSE SampleCount) |-> mine[j].opinion]

----------------------------------------------------------------------------
(* Claims about the timeline and the entity matrix *)

TimelineDone == pc \in {"tab3_entities", "done"}
DatedRows == SelectSeq(df, LAMBDA r : r.date # NaN)
DatedPairs == {<<DatedRows[i].date, DatedRows[i].sentiment>> : i \in DOMAIN DatedRows}
TrendKey(n) == <<trend_data[n].date, trend_data[n].sentiment>>
TrendCounts == [n \in DOMAIN trend_data |-> trend_data[n].count]

\* C8: the timeline has one entry per distinct (date, sentiment) pair of the
\* rows with a date, in date then sentiment order, each counting its rows, and
\* the counts add up to the number of rows with a date.
C8_TimelineCountsDatedRows ==
    TimelineDone =>
        /\ {TrendKey(n) : n \in DOMAIN trend_data} = DatedPairs
        /\ Len(trend_data) = Cardinality(DatedPairs)
        /\ \A n \in DOMAIN trend_data :
              trend_data[n].count =
                  Cardinality({i \in DOMAIN DatedRows :
                      <<DatedRows[i].date, DatedRows[i].sentiment>> = TrendKey(n)})
        /\ \A n, m \in DOMAIN trend_data : n < m => KeyBefore(TrendKey(n), TrendKey(m))
        /\ SumOver(TrendCounts, DOMAIN trend_data) = Len(DatedRows)

\* The entities of the rows of a table, as the records give them.
RECURSIVE EntitiesOfRows(_)
EntitiesOfRows(rows) ==
    IF rows = <<>> THEN <<>>
    ELSE (IF IsObject(Head(rows).raw) THEN DefaultList(ObjectOf(Head(rows).raw).entities)
          ELSE <<>>) \o EntitiesOfRows(Tail(rows))

\* C6: every entity's row sum is the number of pairs the entity contributed
\* over the parsed records, the matrix is zero where a combination is absent,
\* at most 6 entities are selected, and none left out has a larger row sum.
C6_RowSumsCountPairs ==
    (pc = "done" /\ ent_df # <<>>) =>
        /\ \A e \in ColumnValues(EntitiesOfRows(df)) :
              /\ e \in DOMAIN pivot
              /\ row_sum(pivot, e) = Occurrences(EntitiesOfRows(df), e)
        /\ \A e \in DOMAIN pivot : \A c \in DOMAIN pivot[e] :
              pivot[e][c] = Cardinality({i \in DOMAIN ent_df :
                                ent_df[i].entity = e /\ ent_df[i].sentiment = c})
        /\ Cardinality(top_entities) <= TopEntities
        /\ top_entities \subseteq DOMAIN pivot
        /\ \A a \in top_entities : \A b \in (DOMAIN pivot) \ top_entities :
              ~(row_sum(pivot, b) > row_sum(pivot, a))

====
